---- MODULE Spec2Model ----
(***************************************************************************)
(* SoulHound voice bot: the playback queue (internal/queue/queue.go), the  *)
(* playback controller (internal/bot/bot.go: handlePlay, handlePause,      *)
(* handleResume, handleStop, handleSkip, handleRemove, handleSmartPlay,    *)
(* startPlaying, joinVoiceChannel, streamAudio) and the presence store     *)
(* (voiceStateUpdateHandler, readyHandler, handleRefreshVoice and the      *)
(* voice lookup of messageHandler).                                        *)
(*                                                                         *)
(* Ten specifications share the variables:                                 *)
(*   SpecQueue    the Queue alone, under every sequence of its operations; *)
(*   Spec         the controller: command handlers and playback goroutines *)
(*                interleaved at the granularity of their critical         *)
(*                sections, with the commands of one room;                 *)
(*   SpecPlay     the controller under play commands only, from two rooms; *)
(*   FairSpec     Spec with weak fairness on every goroutine step, started *)
(*                with smart play on or off;                               *)
(*   SpecRooms    SpecPlay with every outcome of the join and the search;  *)
(*   SpecRemove   the Queue under Add, Next, Remove and the remove command;*)
(*   SpecJoin     joinVoiceChannel alone, two rooms and two channels;      *)
(*   SpecPresence the presence store under events and refreshes;           *)
(*   SpecResolve  the voice lookup under events;                           *)
(*   SpecGate     the voice-required commands behind the voice lookup.     *)
(***************************************************************************)
EXTENDS Integers, Sequences, FiniteSets, Bags, TLC

\* ------------------------------------------------------------------ bounds
\* Longest track list of the Queue taken alone.
MaxLen == 3
\* Longest track list the controller lets its queue grow to.
MaxQueue == 2
\* Number of commands the gateway delivers in one behaviour.
MaxCmds == 3
\* Playback goroutines (startPlaying calls) alive at the same time.
MaxLoops == 2
\* Command handlers (handlePlay, handleSkip) running at the same time.
MaxHands == 2
\* handleRefreshVoice calls running at the same time.
MaxRefresh == 1
\* Voice lookups of messageHandler running at the same time.
MaxLookups == 1
MaxTasks == 2

\* ------------------------------------------------------- program constants
\* maxRetries := 3
maxRetries == 3
\* len(url) == 11: a YouTube video id
YouTubeIdLen == 11
\* len(url) == 22: a Spotify track id
SpotifyIdLen == 22

\* ------------------------------------------------------------------ values
\* A string is modelled by the features the code inspects: its prefix
\* (strings.HasPrefix), its length (len), whether it contains "/" and
\* whether it contains a YouTube host name (strings.Contains).
EmptyStr == [pre |-> "", len |-> 0, slash |-> FALSE, host |-> ""]
\* "dQw4w9WgXcQ"
YouTubeId == [pre |-> "", len |-> YouTubeIdLen, slash |-> FALSE, host |-> ""]
\* "4iV5W9uYEdYUVa79Axb7Rh"
SpotifyId == [pre |-> "", len |-> SpotifyIdLen, slash |-> FALSE, host |-> ""]
\* "mock_" + query + "_1"
MockId == [pre |-> "mock_", len |-> 12, slash |-> FALSE, host |-> ""]
\* "rec_default_1"
RecId == [pre |-> "", len |-> 13, slash |-> FALSE, host |-> ""]
\* the location the YouTube library resolves a video id to
MediaURL == [pre |-> "", len |-> 64, slash |-> TRUE, host |-> "googlevideo.com"]

HasPrefix(s, p) == s.pre = p
Contains(s, sub) == IF sub = "/" THEN s.slash ELSE s.host = sub

\* queue.Track (Artist and Duration are never read by the modelled code)
\* A video the YouTube search API returned (Genre is always "unknown").
TrackA == [Title |-> "A", URL |-> YouTubeId, Platform |-> "yt", Genre |-> "unknown"]
\* A placeholder result of getMockResults.
TrackM == [Title |-> "M", URL |-> MockId, Platform |-> "yt", Genre |-> "unknown"]
\* The recommendations GetRecommendations holds.
TrackR == [Title |-> "R", URL |-> RecId, Platform |-> "yt", Genre |-> "unknown"]
TrackP1 == [Title |-> "P1", URL |-> RecId, Platform |-> "yt", Genre |-> "pop"]
TrackP2 == [Title |-> "P2", URL |-> RecId, Platform |-> "yt", Genre |-> "pop"]
TrackK1 == [Title |-> "K1", URL |-> RecId, Platform |-> "yt", Genre |-> "rock"]
TrackK2 == [Title |-> "K2", URL |-> RecId, Platform |-> "yt", Genre |-> "rock"]

\* What a search can put first in its results, and what the queue can hold.
SearchTracks == {TrackA, TrackM}
Tracks == SearchTracks \cup {TrackR}

NoTrack == [Title |-> "", URL |-> EmptyStr, Platform |-> "", Genre |-> ""]

Guilds == {"g1", "g2"}
Channels == {"c1"}
\* The users and voice channels of the presence store and of joinVoiceChannel.
Users == {"u1"}
VoiceChannels == {"c1", "c2"}

VARIABLES
    queue,      \* Bot.queue: [tracks: Seq(Track), current: Int]
    ret,        \* what the last Queue method returned: [op, arg, pre, track, err]
    isPlaying,  \* Bot.isPlaying
    voiceConn,  \* Bot.voiceConn: guild -> VoiceConnection or NoConn
    smartPlay,  \* config.PlayerConfig.SmartPlayEnabled
    loops,      \* the startPlaying goroutines: id -> position and locals
    hands,      \* command handlers that have not returned: the bag of their positions and locals
    ncmd,       \* commands delivered so far
    lastCmd,    \* the handler that returned last, and what it returned
    panicked,   \* the process died of a nil dereference
    skipped,    \* goroutine id -> a skip moved the cursor under it
    joinRet,    \* what the last joinVoiceChannel call made alone did and returned
    voiceStates, \* Bot.voiceStates: <<guild, user>> -> channel id, "" for no entry
    lastEv,     \* the voice state event applied last: [g, u, c, was]
    refreshes,  \* the handleRefreshVoice calls: id -> position and locals
    lookups,    \* the voice lookups of messageHandler: id -> position and locals
    lastRes,    \* the lookup that returned last, if the store was not written since
    admitted,   \* voice-required messages whose lookup found a channel (up to MaxCmds)
    heap,       \* the backing array of q.tracks and the *Track each goroutine holds
    locks       \* b.mu and the queue's mutex: their holders, and each task's lock calls

presenceVars == <<voiceStates, lastEv, refreshes, lookups, lastRes, admitted>>
\* The presence store; the heap, which only the steps of SpecAlias follow
\* (the other specifications hold tracks as values); and the two mutexes,
\* which only the steps of SpecLocks follow (the other specifications take a
\* critical section as one step).
storeVars == <<presenceVars, heap, locks>>
\* What no step of the playback controller changes.
auxVars == <<ret, joinRet, storeVars>>

vars == <<queue, ret, isPlaying, voiceConn, smartPlay, loops, hands, ncmd, lastCmd,
          panicked, skipped, joinRet, storeVars>>

\* ------------------------------------------------------------------- Queue
\* NewQueue
NewQueue == [tracks |-> <<>>, current |-> -1]

\* The slice without its element at 0-based index i.
\* append(q.tracks[:index], q.tracks[index+1:]...)
RemoveAt(s, i) == SubSeq(s, 1, i) \o SubSeq(s, i + 2, Len(s))

\* Queue.Add
QueueAdd(q, track) ==
    [tracks |-> Append(q.tracks, track),
     current |-> IF q.current = -1 THEN 0 ELSE q.current]

\* Queue.Remove with the cursor left where it was (a forgotten adjustment).
QueueRemoveKeepCursor(q, index) ==
    IF index < 0 \/ index >= Len(q.tracks)
    THEN [q |-> q, err |-> "ErrInvalidIndex"]
    ELSE [q |-> [tracks |-> RemoveAt(q.tracks, index),
                 current |-> IF Len(q.tracks) = 1 THEN -1 ELSE q.current],
          err |-> "nil"]

\* Queue.Remove
QueueRemove(q, index) ==
    IF index < 0 \/ index >= Len(q.tracks)
    THEN [q |-> q, err |-> "ErrInvalidIndex"]
    ELSE LET rest == RemoveAt(q.tracks, index)
         IN  [q |-> [tracks |-> rest,
                     current |-> IF Len(rest) = 0 THEN -1
                                 ELSE IF index <= q.current THEN q.current - 1
                                 ELSE q.current],
              err |-> "nil"]

\* Queue.Current without its range check.
QueueCurrentNoCheck(q) ==
    [track |-> IF q.current + 1 \in DOMAIN q.tracks THEN q.tracks[q.current + 1]
               ELSE NoTrack,
     err |-> "nil"]

\* Queue.Current
QueueCurrent(q) ==
    IF q.current < 0 \/ q.current >= Len(q.tracks)
    THEN [track |-> NoTrack, err |-> "ErrQueueEmpty"]
    ELSE [track |-> q.tracks[q.current + 1], err |-> "nil"]

\* Queue.Next with the cursor stepped without the modulo.
QueueNextNoWrap(q) ==
    IF Len(q.tracks) = 0
    THEN [q |-> q, track |-> NoTrack, err |-> "ErrQueueEmpty"]
    ELSE [q |-> [q EXCEPT !.current = q.current + 1],
          track |-> q.tracks[((q.current + 1) % Len(q.tracks)) + 1], err |-> "nil"]

\* Queue.Next that goes back to the first track every time.
QueueNextRewind(q) ==
    IF Len(q.tracks) = 0
    THEN [q |-> q, track |-> NoTrack, err |-> "ErrQueueEmpty"]
    ELSE [q |-> [q EXCEPT !.current = 0], track |-> q.tracks[1], err |-> "nil"]

\* Queue.Next
QueueNext(q) ==
    IF Len(q.tracks) = 0
    THEN [q |-> q, track |-> NoTrack, err |-> "ErrQueueEmpty"]
    ELSE LET c == (q.current + 1) % Len(q.tracks)
         IN  [q |-> [q EXCEPT !.current = c], track |-> q.tracks[c + 1], err |-> "nil"]

\* Queue.List
QueueList(q) == q.tracks

\* Queue.Clear that empties the list and forgets the cursor.
QueueClearKeepCursor(q) == [tracks |-> <<>>, current |-> q.current]

\* Queue.Clear
QueueClear(q) == [tracks |-> <<>>, current |-> -1]

NoRet == [op |-> "", arg |-> -1, pre |-> NewQueue, track |-> NoTrack, err |-> "nil"]

ctlVars == <<isPlaying, voiceConn, smartPlay, loops, hands, ncmd, lastCmd, panicked,
            skipped, joinRet, storeVars>>

\* One call of each Queue method, as SpecQueue's actions.
QAdd(track) ==
    /\ Len(queue.tracks) < MaxLen
    /\ queue' = QueueAdd(queue, track)
    /\ ret' = [op |-> "Add", arg |-> -1, pre |-> queue, track |-> track, err |-> "nil"]
    /\ UNCHANGED ctlVars

QRemove(index) ==
    LET r == QueueRemove(queue, index)
    IN  /\ queue' = r.q
        /\ ret' = [op |-> "Remove", arg |-> index, pre |-> queue, track |-> NoTrack,
                   err |-> r.err]
        /\ UNCHANGED ctlVars

QCurrent ==
    LET r == QueueCurrent(queue)
    IN  /\ ret' = [op |-> "Current", arg |-> -1, pre |-> queue, track |-> r.track,
                   err |-> r.err]
        /\ UNCHANGED <<queue, ctlVars>>

QNext ==
    LET r == QueueNext(queue)
    IN  /\ queue' = r.q
        /\ ret' = [op |-> "Next", arg |-> -1, pre |-> queue, track |-> r.track,
                   err |-> r.err]
        /\ UNCHANGED ctlVars

QClear ==
    /\ queue' = QueueClear(queue)
    /\ ret' = [op |-> "Clear", arg |-> -1, pre |-> queue, track |-> NoTrack, err |-> "nil"]
    /\ UNCHANGED ctlVars

\* -------------------------------------------------------------- providers
\* YouTubeProvider.GetStreamURL / SpotifyProvider.GetStreamURL: the set of
\* results a call can have.  The YouTube library's lookup of a real id is
\* outside the repository: it fails or yields a media location.
GetStreamURL(platform, id) ==
    IF id = EmptyStr THEN {[url |-> EmptyStr, err |-> "invalid ID"]}
    ELSE IF platform = "yt"
    THEN IF HasPrefix(id, "mock_") THEN {[url |-> id, err |-> "nil"]}
         ELSE {[url |-> EmptyStr, err |-> "failed to get video information"],
               [url |-> MediaURL, err |-> "nil"]}
    ELSE {[url |-> id, err |-> "nil"]}

\* strings.HasPrefix(streamURL, "spotify_mock_") || strings.HasPrefix(streamURL, "mock_")
IsMock(url) == HasPrefix(url, "spotify_mock_") \/ HasPrefix(url, "mock_")

\* The branch streamAudio takes for a location.
StreamKind(url) ==
    IF url = EmptyStr THEN "empty"
    ELSE IF HasPrefix(url, "mock_") \/ HasPrefix(url, "spotify_mock_") THEN "test"
    ELSE IF Contains(url, "youtube.com") \/ Contains(url, "youtu.be")
            \/ (url.len = YouTubeIdLen /\ ~Contains(url, "/")) THEN "youtube"
    ELSE IF url.len = SpotifyIdLen /\ ~Contains(url, "/")
            /\ ~HasPrefix(url, "spotify_mock_") THEN "spotify"
    ELSE "direct"

\* ------------------------------------------------------------- controller
LoopIds == 1..MaxLoops

\* No entry in Bot.voiceConn.
NoConn == [channelID |-> "", connection |-> "nil", sess |-> 0]

\* A VoiceConnection: connection is the transport handle ("nil", "live", or
\* "closed" after Disconnect); sess stands for the encoder and stream
\* fields, which streamDirectAudio sets together: 0 for nil, the id of the
\* goroutine whose session they hold, or -1 once that session has ended.
Joined(g) == voiceConn[g] # NoConn

IdleLoop == [pc |-> "idle", track |-> NoTrack, url |-> EmptyStr, conns |-> {},
             todo |-> {}, guild |-> "", retryCount |-> 0, ok |-> FALSE,
             log |-> <<>>, enc |-> "none", paused |-> FALSE, last |-> ""]

NoCmd == [cmd |-> "", res |-> ""]

\* Goroutines that hold a track they took from the queue.
MidTrack(lp) == lp.pc \in {"attempt", "blocked", "post", "next"}

\* History: skipped[l] holds from a skip that moved the cursor while
\* goroutine l held a track, until l takes its next track or a command
\* changes the list.
MarkSkipped(sk, ls) == [l \in LoopIds |-> sk[l] \/ MidTrack(ls[l])]
NoneSkipped == [l \in LoopIds |-> FALSE]

\* Goroutines inside startPlaying's for loop.
InLoop(l) == loops[l].pc \in {"top", "attempt", "blocked", "post", "next", "exit"}
Active == {l \in LoopIds : InLoop(l)}

FreeLoops == {l \in LoopIds : loops[l].pc = "idle"}
\* Handlers in flight: one more, one fewer, and how many.
Enter(hs, h) == hs (+) SetToBag({h})
Leave(hs, h) == hs (-) SetToBag({h})
InFlight == BagCardinality(hands)
Lowest(S) == CHOOSE x \in S : \A y \in S : x <= y

\* go b.startPlaying()
Spawn(ls) == [ls EXCEPT ![Lowest({l \in LoopIds : ls[l].pc = "idle"})].pc = "start"]

\* Tracks that handlers past their search are about to add.
PendingAdds ==
    BagCardinality([h \in {x \in BagToSet(hands) : x.pc = "add"} |-> hands[h]])
Room == MaxQueue - Len(queue.tracks) - PendingAdds

\* ------------------------------------------------- presence store: values
\* The key GuildID + ":" + UserID is the pair: ids hold no ":", so the keys
\* of two pairs differ and strings.HasPrefix(key, guildID+":") holds exactly
\* for the keys of that guild.
Keys == Guilds \X Users
Key(g, u) == <<g, u>>

\* What a Guild fetch or a Ready event lists for one guild: the channel of
\* every user, "" for a user it does not list (or lists with no channel).
Snapshots == [Users -> VoiceChannels \cup {""}]

RefreshIds == 1..MaxRefresh
LookupIds == 1..MaxLookups

NoEv == [g |-> "", u |-> "", c |-> "", was |-> ""]
NoSnap == [u \in Users |-> ""]
\* late: a voice state event of the guild was applied after the fetch was issued.
IdleRefresh == [pc |-> "idle", g |-> "", snap |-> NoSnap, late |-> FALSE]
\* fetches: the Guild fetches this lookup made.
IdleLookup == [pc |-> "idle", g |-> "", u |-> "", fetches |-> 0]
NoRes == [g |-> "", u |-> "", ch |-> "", fetches |-> 0, from |-> ""]
NoJoin == [g |-> "", c |-> "", pre |-> NoConn, err |-> "nil", calls |-> <<>>]

\* The tasks that call Lock and Unlock: command handlers and goroutines.
TaskIds == 1..MaxTasks

\* Both mutexes free (holder 0) and no task inside a function.
NoLocks == [mu |-> 0, qmu |-> 0,
            task |-> [t \in TaskIds |-> [prog |-> <<>>, pc |-> 1, fn |-> ""]]]

\* A *Track: slot is its 1-based position in the backing array q.tracks
\* has now; slot 0 is no pointer, or a pointer into an array the slice has
\* left, whose element val nothing writes any more.
NoRef == [slot |-> 0, val |-> NoTrack]

\* make([]Track, 0), and no goroutine holding a pointer
NewHeap == [cells |-> <<>>, ref |-> [l \in LoopIds |-> NoRef]]

Init ==
    /\ queue = NewQueue
    /\ ret = NoRet
    /\ isPlaying = FALSE
    /\ voiceConn = [g \in Guilds |-> NoConn]
    /\ smartPlay = FALSE
    /\ loops = [l \in LoopIds |-> IdleLoop]
    /\ hands = EmptyBag
    /\ ncmd = 0
    /\ lastCmd = NoCmd
    /\ panicked = FALSE
    /\ skipped = NoneSkipped
    /\ joinRet = NoJoin
    /\ voiceStates = [k \in Keys |-> ""]
    /\ lastEv = NoEv
    /\ refreshes = [r \in RefreshIds |-> IdleRefresh]
    /\ lookups = [i \in LookupIds |-> IdleLookup]
    /\ lastRes = NoRes
    /\ admitted = 0
    /\ heap = NewHeap
    /\ locks = NoLocks

\* A joinVoiceChannel that joins again although the guild is in the channel.
joinVoiceChannelRejoin(vcs, g, c, join) ==
    IF join = "err"
    THEN [vcs |-> vcs, err |-> "join failed", panic |-> FALSE,
          calls |-> <<"ChannelVoiceJoin">>]
    ELSE [vcs |-> [vcs EXCEPT ![g] = [channelID |-> c, connection |-> join, sess |-> 0]],
          err |-> "nil", panic |-> FALSE, calls |-> <<"ChannelVoiceJoin">>]

\* joinVoiceChannel: the state it leaves, given what ChannelVoiceJoin returns
\* (join is "err", or the handle "live" or "nil"), and the calls it makes on
\* the Discord session, in their order.
joinVoiceChannel(vcs, g, c, join) ==
    IF vcs[g] # NoConn /\ vcs[g].channelID = c
    THEN [vcs |-> vcs, err |-> "nil", panic |-> FALSE, calls |-> <<>>]
    ELSE IF vcs[g] # NoConn /\ vcs[g].connection = "nil"
    THEN [vcs |-> vcs, err |-> "nil", panic |-> TRUE, calls |-> <<"Disconnect">>]
    ELSE LET left == IF vcs[g] # NoConn
                     THEN [vcs EXCEPT ![g].connection = "closed"]
                     ELSE vcs
             calls == IF vcs[g] # NoConn
                      THEN <<"Disconnect", "ChannelVoiceJoin">>
                      ELSE <<"ChannelVoiceJoin">>
         IN  IF join = "err"
             THEN [vcs |-> left, err |-> "join failed", panic |-> FALSE, calls |-> calls]
             ELSE [vcs |-> [left EXCEPT ![g] = [channelID |-> c, connection |-> join,
                                                 sess |-> 0]],
                   err |-> "nil", panic |-> FALSE, calls |-> calls]

\* One joinVoiceChannel(g, c) call made alone, as SpecJoin's action; a nil
\* dereference ends the process.
JoinVoiceChannel(g, c, join) ==
    /\ ~panicked
    /\ LET r == joinVoiceChannel(voiceConn, g, c, join)
       IN  /\ voiceConn' = r.vcs
           /\ panicked' = r.panic
           /\ joinRet' = [g |-> g, c |-> c, pre |-> voiceConn[g],
                          err |-> IF r.panic THEN "panic" ELSE r.err, calls |-> r.calls]
    /\ UNCHANGED <<queue, ret, isPlaying, smartPlay, loops, hands, ncmd, lastCmd, skipped,
                   storeVars>>

\* The process exits on an unrecovered panic: every goroutine is gone, and
\* no action is enabled any more.
Panic ==
    /\ panicked' = TRUE
    /\ loops' = [l \in LoopIds |-> IdleLoop]
    /\ hands' = EmptyBag

\* A handlePlay that goes on after a failed join.
JoinFailedNever(err) == FALSE

\* if err != nil { return "", fmt.Errorf("failed to join voice channel: %w", err) }
JoinFailed(err) == err # "nil"

\* handlePlay, up to the search: join the caller's channel, then take the
\* first search result (found is the first result, or NoTrack for none).
HandlePlayJoin(g, c, join, found) ==
    /\ ~panicked
    /\ ncmd < MaxCmds
    /\ InFlight < MaxHands
    /\ Room > 0
    /\ ncmd' = ncmd + 1
    /\ LET r == joinVoiceChannel(voiceConn, g, c, join)
       IN  IF r.panic
           THEN Panic /\ UNCHANGED <<queue, auxVars, skipped, isPlaying, voiceConn,
                                     smartPlay, lastCmd>>
           ELSE /\ voiceConn' = r.vcs
                /\ IF JoinFailed(r.err)
                   THEN /\ lastCmd' = [cmd |-> "play", res |-> "failed to join voice channel"]
                        /\ UNCHANGED hands
                   ELSE IF found = NoTrack
                   THEN /\ lastCmd' = [cmd |-> "play", res |-> "No results found"]
                        /\ UNCHANGED hands
                   ELSE /\ hands' = Enter(hands, [pc |-> "add", track |-> found])
                        /\ UNCHANGED lastCmd
                /\ UNCHANGED <<queue, auxVars, skipped, isPlaying, smartPlay, loops,
                               panicked>>

\* handlePlay: b.queue.Add(track)
HandlePlayAdd(h) ==
    /\ ~panicked
    /\ h.pc = "add"
    /\ queue' = QueueAdd(queue, h.track)
    /\ hands' = Enter(Leave(hands, h), [h EXCEPT !.pc = "check"])
    /\ UNCHANGED <<auxVars, skipped, isPlaying, voiceConn, smartPlay, loops, ncmd,
                   lastCmd, panicked>>

\* Whether handlePlay starts a goroutine: if !wasPlaying
PlaySpawns(wasPlaying) == ~wasPlaying

\* handlePlay: read isPlaying under the lock, start playing if it was false, return.
HandlePlayCheck(h) ==
    /\ ~panicked
    /\ h.pc = "check"
    /\ PlaySpawns(isPlaying) => FreeLoops # {}
    /\ loops' = IF PlaySpawns(isPlaying) THEN Spawn(loops) ELSE loops
    /\ hands' = Leave(hands, h)
    /\ lastCmd' = [cmd |-> "play", res |-> "Added to queue"]
    /\ UNCHANGED <<queue, auxVars, skipped, isPlaying, voiceConn, smartPlay, ncmd,
                   panicked>>

\* StreamingSession.SetPaused(p) on every VoiceConnection whose stream is not nil.
SetPausedAll(ls, vcs, p) ==
    [l \in LoopIds |-> IF \E g \in Guilds : vcs[g].sess = l
                       THEN [ls[l] EXCEPT !.paused = p] ELSE ls[l]]

\* EncodeSession.Cleanup() on every VoiceConnection whose encoder is not nil.
CleanupAll(ls, vcs) ==
    [l \in LoopIds |-> IF \E g \in Guilds : vcs[g].sess = l
                       THEN [ls[l] EXCEPT !.enc = "cleaned"] ELSE ls[l]]

\* A pause that pauses whatever the flag says.
NothingPlayingNever(flag) == FALSE

\* if !b.isPlaying { return "Nothing is playing", nil }
NothingPlaying(flag) == ~flag

\* handlePause
HandlePause ==
    /\ ~panicked
    /\ ncmd < MaxCmds
    /\ ncmd' = ncmd + 1
    /\ IF NothingPlaying(isPlaying)
       THEN /\ lastCmd' = [cmd |-> "pause", res |-> "Nothing is playing"]
            /\ UNCHANGED <<isPlaying, loops>>
       ELSE /\ loops' = SetPausedAll(loops, voiceConn, TRUE)
            /\ isPlaying' = FALSE
            /\ lastCmd' = [cmd |-> "pause", res |-> "Playback paused"]
    /\ UNCHANGED <<queue, auxVars, skipped, voiceConn, smartPlay, hands, panicked>>

\* handleResume
HandleResume ==
    /\ ~panicked
    /\ ncmd < MaxCmds
    /\ ncmd' = ncmd + 1
    /\ IF isPlaying
       THEN /\ lastCmd' = [cmd |-> "resume", res |-> "Already playing"]
            /\ UNCHANGED <<isPlaying, loops>>
       ELSE /\ loops' = SetPausedAll(loops, voiceConn, FALSE)
            /\ isPlaying' = TRUE
            /\ lastCmd' = [cmd |-> "resume", res |-> "Playback resumed"]
    /\ UNCHANGED <<queue, auxVars, skipped, voiceConn, smartPlay, hands, panicked>>

\* handleStop
HandleStop ==
    /\ ~panicked
    /\ ncmd < MaxCmds
    /\ ncmd' = ncmd + 1
    /\ isPlaying' = FALSE
    /\ queue' = QueueClear(queue)
    /\ loops' = SetPausedAll(CleanupAll(loops, voiceConn), voiceConn, TRUE)
    /\ skipped' = NoneSkipped
    /\ lastCmd' = [cmd |-> "stop", res |-> "Playback stopped and queue cleared"]
    /\ UNCHANGED <<auxVars, voiceConn, smartPlay, hands, panicked>>

\* handleSkip: b.queue.Next()
HandleSkipNext ==
    /\ ~panicked
    /\ ncmd < MaxCmds
    /\ InFlight < MaxHands
    /\ ncmd' = ncmd + 1
    /\ LET r == QueueNext(queue)
       IN  /\ queue' = r.q
           /\ IF r.err # "nil"
              THEN /\ lastCmd' = [cmd |-> "skip", res |-> r.err]
                   /\ UNCHANGED <<hands, skipped>>
              ELSE /\ hands' = Enter(hands, [pc |-> "cleanup", track |-> r.track])
                   /\ skipped' = MarkSkipped(skipped, loops)
                   /\ UNCHANGED lastCmd
    /\ UNCHANGED <<auxVars, isPlaying, voiceConn, smartPlay, loops, panicked>>

\* handleSkip: clean up every encoder, start playing, return.
HandleSkipCleanup(h) ==
    /\ ~panicked
    /\ h.pc = "cleanup"
    /\ FreeLoops # {}
    /\ loops' = Spawn(CleanupAll(loops, voiceConn))
    /\ hands' = Leave(hands, h)
    /\ lastCmd' = [cmd |-> "skip", res |-> h.track.Title]
    /\ UNCHANGED <<queue, auxVars, skipped, isPlaying, voiceConn, smartPlay, ncmd,
                   panicked>>

\* A handler that takes the user's number for the index.
TrackIndexSame(n) == n

\* index-- // Convert to 0-based index
TrackIndex(n) == n - 1

\* handleRemove with the user's 1-based track number n
HandleRemove(n) ==
    /\ ~panicked
    /\ ncmd < MaxCmds
    /\ ncmd' = ncmd + 1
    /\ LET r == QueueRemove(queue, TrackIndex(n))
       IN  /\ queue' = r.q
           /\ skipped' = IF r.err = "nil" THEN NoneSkipped ELSE skipped
           /\ lastCmd' = [cmd |-> "remove", res |-> r.err]
    /\ UNCHANGED <<auxVars, isPlaying, voiceConn, smartPlay, loops, hands, panicked>>

\* handleSmartPlay: config.ToggleSmartPlay(enabled)
HandleSmartPlay(enabled) ==
    /\ ~panicked
    /\ ncmd < MaxCmds
    /\ ncmd' = ncmd + 1
    /\ smartPlay' = enabled
    /\ lastCmd' = [cmd |-> "smartplay", res |-> IF enabled THEN "on" ELSE "off"]
    /\ UNCHANGED <<queue, auxVars, skipped, isPlaying, voiceConn, loops, hands, panicked>>

\* ------------------------------------------------------------ startPlaying
\* A wait of one second before every retry.
BackoffFixed(retryCount) == 1

\* waitTime := time.Duration(retryCount) * time.Second, in seconds
BackoffWait(retryCount) == retryCount

\* Placeholders retried like every other location.
SkipRetriesNever(url) == FALSE

\* Whether a failed attempt is not retried because the location is a placeholder.
SkipRetries(url) == IsMock(url)

\* The goroutine after its for-range over voiceConnections moved on: the
\* next connection (Go ranges over a map in any order), or past the loop.
NextGuild(lp) ==
    IF lp.todo = {}
    THEN {[lp EXCEPT !.pc = "post",
                     !.last = IF ~lp.ok /\ lp.conns # {}
                              THEN "Failed to stream track" ELSE "streamed"]}
    ELSE {[lp EXCEPT !.pc = "attempt", !.guild = g, !.todo = @ \ {g}, !.log = <<>>] :
            g \in lp.todo}

\* The retry loop after one streamAudio call returned (failed: err != nil).
AfterAttempt(lp, failed) ==
    LET rc == IF failed THEN lp.retryCount + 1 ELSE lp.retryCount
    IN  IF failed /\ ~SkipRetries(lp.url) /\ rc < maxRetries
        THEN {[lp EXCEPT !.pc = "attempt", !.retryCount = rc,
                         !.log = Append(@, <<"wait", BackoffWait(rc)>>)]}
        ELSE NextGuild([lp EXCEPT !.ok = (@ \/ ~failed), !.retryCount = 0])

\* startPlaying without its check of the flag.
NeverAlreadyPlaying(flag) == FALSE

\* if b.isPlaying { return }
AlreadyPlaying(flag) == flag

\* startPlaying, lines 612-618: return if a loop is marked active, else mark it.
LoopStart(l) ==
    /\ ~panicked
    /\ loops[l].pc = "start"
    /\ IF AlreadyPlaying(isPlaying)
       THEN /\ loops' = [loops EXCEPT ![l] = IdleLoop]
            /\ UNCHANGED isPlaying
       ELSE /\ isPlaying' = TRUE
            /\ loops' = [loops EXCEPT ![l].pc = "top"]
    /\ UNCHANGED <<queue, auxVars, skipped, voiceConn, smartPlay, hands, ncmd, lastCmd,
                   panicked>>

\* A loop that gives up when a source cannot be resolved.
OnResolveErrorReturn(lp, q) == [lp |-> IdleLoop, q |-> q]

\* What the loop does when the source cannot be resolved: skip the track
\* (b.queue.Next(); continue).
OnResolveError(lp, q) ==
    [lp |-> [lp EXCEPT !.last = "Failed to get stream URL"], q |-> QueueNext(q).q]

\* startPlaying, lines 621-659, one critical section of b.mu: leave if
\* playback was switched off or the queue has no current track; resolve the
\* track's location; copy the connections.
LoopTop(l) ==
    /\ ~panicked
    /\ loops[l].pc = "top"
    /\ LET cur == QueueCurrent(queue)
       IN  IF ~isPlaying
           THEN /\ loops' = [loops EXCEPT ![l] = IdleLoop]
                /\ UNCHANGED <<queue, isPlaying>>
           ELSE IF cur.err # "nil"
           THEN /\ isPlaying' = FALSE
                /\ loops' = [loops EXCEPT ![l] = IdleLoop]
                /\ UNCHANGED queue
           ELSE \E r \in GetStreamURL(cur.track.Platform, cur.track.URL) :
                  IF r.err # "nil"
                  THEN LET o == OnResolveError(loops[l], queue)
                       IN  /\ queue' = o.q
                           /\ loops' = [loops EXCEPT ![l] = o.lp]
                           /\ UNCHANGED isPlaying
                  ELSE /\ \E lp \in NextGuild([IdleLoop EXCEPT
                                  !.track = cur.track, !.url = r.url, !.last = "",
                                  !.conns = {g \in Guilds : Joined(g)},
                                  !.todo = {g \in Guilds : Joined(g)}]) :
                            loops' = [loops EXCEPT ![l] = lp]
                       /\ UNCHANGED <<queue, isPlaying>>
    /\ skipped' = [skipped EXCEPT ![l] = FALSE]
    /\ UNCHANGED <<auxVars, voiceConn, smartPlay, hands, ncmd, lastCmd, panicked>>

\* streamAudio(url, vc): what one call can do: return an error ("err"),
\* return nil ("nil"), or start an encoder session and block on it ("start").
\* dca.EncodeFile is outside the repository: it fails or starts a session.
streamAudio(url, vc) ==
    LET direct == {"err", "start"}
    IN  CASE StreamKind(url) = "empty" -> {"err"}
          [] StreamKind(url) = "test" ->
                IF vc.connection = "nil" THEN {"err"} ELSE {"nil"}
          [] StreamKind(url) = "youtube" ->
                IF vc.connection = "nil" THEN {"err"}
                ELSE UNION {IF r.err # "nil" THEN {"err"} ELSE direct :
                              r \in GetStreamURL("yt", url)}
          [] StreamKind(url) = "spotify" -> {"err"}
          [] OTHER -> direct

\* One streamAudio call of the retry loop, up to its return or to the point
\* where streamDirectAudio blocks on the session's done channel.
LoopAttempt(l) ==
    /\ ~panicked
    /\ loops[l].pc = "attempt"
    /\ LET lp == [loops[l] EXCEPT !.log = Append(@, <<"attempt", loops[l].retryCount + 1>>)]
           g == lp.guild
       IN  \E out \in streamAudio(lp.url, voiceConn[g]) :
             IF out = "start"
             THEN /\ voiceConn' = [voiceConn EXCEPT ![g].sess = l]
                  /\ loops' = [loops EXCEPT ![l] = [lp EXCEPT !.pc = "blocked",
                                                      !.enc = "live", !.paused = FALSE]]
             ELSE /\ \E nx \in AfterAttempt(lp, out = "err") :
                        loops' = [loops EXCEPT ![l] = nx]
                  /\ UNCHANGED voiceConn
    /\ UNCHANGED <<queue, auxVars, skipped, isPlaying, smartPlay, hands, ncmd, lastCmd,
                   panicked>>

\* How a session the goroutine blocks on can end.  A paused stream sends
\* nothing on done until it is resumed, unless its encoder was cleaned up,
\* which ends it with an error.  A stream into a nil connection fails before
\* its first frame or dereferences nil.
StreamEnds(lp, vc) ==
    IF lp.enc = "cleaned" THEN {"err"}
    ELSE IF lp.paused THEN {}
    ELSE IF vc.connection = "nil" THEN {"err", "panic"}
    ELSE {"nil", "err"}

\* streamDirectAudio, from err = <-done to its return (with the deferred
\* Cleanup), and the retry loop's handling of the result.
LoopStreamEnd(l) ==
    /\ ~panicked
    /\ loops[l].pc = "blocked"
    /\ \E out \in StreamEnds(loops[l], voiceConn[loops[l].guild]) :
         IF out = "panic"
         THEN Panic /\ UNCHANGED voiceConn
         ELSE /\ voiceConn' = [g \in Guilds |->
                                 IF voiceConn[g].sess = l
                                 THEN [voiceConn[g] EXCEPT !.sess = -1]
                                 ELSE voiceConn[g]]
              /\ \E nx \in AfterAttempt([loops[l] EXCEPT !.enc = "none", !.paused = FALSE],
                                        out = "err") :
                    loops' = [loops EXCEPT ![l] = nx]
              /\ UNCHANGED <<hands, panicked>>
    /\ UNCHANGED <<queue, auxVars, skipped, isPlaying, smartPlay, ncmd, lastCmd>>

\* YouTubeProvider.GetRecommendations / SpotifyProvider.GetRecommendations:
\* the fixed lists by genre, "unknown" for a genre without a list.
GetRecommendations(genre) ==
    CASE genre = "pop" -> <<TrackP1, TrackP2>>
      [] genre = "rock" -> <<TrackK1, TrackK2>>
      [] OTHER -> <<TrackR>>

RECURSIVE AddAll(_, _)
AddAll(q, ts) == IF ts = <<>> THEN q ELSE AddAll(QueueAdd(q, Head(ts)), Tail(ts))

\* addRecommendations(track): every recommended track is added with the
\* played track's Platform.  The model's queue holds MaxQueue tracks: the
\* tracks beyond that are left out.
addRecommendations(q, track, room) ==
    LET recs == GetRecommendations(track.Genre)
        n == IF Len(recs) < room THEN Len(recs) ELSE room
    IN  AddAll(q, [i \in 1..n |-> [recs[i] EXCEPT !.Platform = track.Platform]])

\* A loop that refills the queue whatever the flag says.
RefillsAlways(enabled) == TRUE

\* Whether the loop refills the queue after a track:
\* if config.PlayerConfig.SmartPlayEnabled
Refills(enabled) == enabled

\* startPlaying, lines 709-716: b.queue.Next(); on its error the loop is
\* about to clear isPlaying and return, otherwise it iterates.
Advance(l) ==
    LET r == QueueNext(queue)
    IN  /\ queue' = r.q
        /\ loops' = [loops EXCEPT ![l] =
                       [IdleLoop EXCEPT !.pc = IF r.err # "nil" THEN "exit" ELSE "top",
                                        !.last = loops[l].last]]

\* startPlaying, lines 698-709: past the streaming; with smart play the
\* recommendations are added first and Next is a later step.
LoopPost(l) ==
    /\ ~panicked
    /\ loops[l].pc = "post"
    /\ IF Refills(smartPlay)
       THEN /\ queue' = addRecommendations(queue, loops[l].track, Room)
            /\ loops' = [loops EXCEPT ![l].pc = "next"]
       ELSE Advance(l)
    /\ UNCHANGED <<auxVars, skipped, isPlaying, voiceConn, smartPlay, hands, ncmd,
                   lastCmd, panicked>>

\* startPlaying, line 709 after addRecommendations
LoopNext(l) ==
    /\ ~panicked
    /\ loops[l].pc = "next"
    /\ Advance(l)
    /\ UNCHANGED <<auxVars, skipped, isPlaying, voiceConn, smartPlay, hands, ncmd,
                   lastCmd, panicked>>

\* startPlaying, lines 712-715: the queue ran out
LoopExit(l) ==
    /\ ~panicked
    /\ loops[l].pc = "exit"
    /\ isPlaying' = FALSE
    /\ loops' = [loops EXCEPT ![l] = IdleLoop]
    /\ skipped' = [skipped EXCEPT ![l] = FALSE]
    /\ UNCHANGED <<queue, auxVars, voiceConn, smartPlay, hands, ncmd, lastCmd, panicked>>

\* ---------------------------------------------------------- presence store
\* What no step of the presence store changes.
playVars == <<queue, ret, isPlaying, voiceConn, smartPlay, loops, hands, ncmd, lastCmd,
              panicked, skipped, joinRet>>
botVars == <<playVars, heap, locks>>

\* A handler that keeps the record of a user who left.
ApplyVoiceStateKeep(vs, g, u, c) ==
    IF c = "" THEN vs ELSE [vs EXCEPT ![Key(g, u)] = c]

\* voiceStateUpdateHandler's write: delete(b.voiceStates, key) for an empty
\* channel id, b.voiceStates[key] = &VoiceStateInfo{...} otherwise.
ApplyVoiceState(vs, g, u, c) ==
    IF c = "" THEN [vs EXCEPT ![Key(g, u)] = ""] ELSE [vs EXCEPT ![Key(g, u)] = c]

\* voiceStateUpdateHandler, one critical section of b.mu.
VoiceStateUpdate(g, u, c) ==
    /\ voiceStates' = ApplyVoiceState(voiceStates, g, u, c)
    /\ lastEv' = [g |-> g, u |-> u, c |-> c, was |-> voiceStates[Key(g, u)]]
    /\ refreshes' = [r \in RefreshIds |->
                       IF refreshes[r].pc \in {"fetch", "repop"} /\ refreshes[r].g = g
                       THEN [refreshes[r] EXCEPT !.late = TRUE] ELSE refreshes[r]]
    /\ lastRes' = NoRes
    /\ UNCHANGED <<lookups, admitted, botVars>>

\* readyHandler: every voice state of r.Guilds with a channel id is stored
\* (st is what the Ready event lists).
ReadyHandler(st) ==
    /\ voiceStates' = [k \in Keys |-> IF st[k] # "" THEN st[k] ELSE voiceStates[k]]
    /\ lastRes' = NoRes
    /\ UNCHANGED <<lastEv, refreshes, lookups, admitted, botVars>>

\* handleRefreshVoice, lines 1307-1315: delete every key of the guild.
ClearGuild(vs, g) == [k \in Keys |-> IF k[1] = g THEN "" ELSE vs[k]]

\* A repopulate step that also drops the users the snapshot does not list.
RepopulateReplace(vs, g, snap) == [k \in Keys |-> IF k[1] = g THEN snap[k[2]] ELSE vs[k]]

\* handleRefreshVoice, lines 1330-1343: store every listed voice state that
\* has a channel id.
Repopulate(vs, g, snap) ==
    [k \in Keys |-> IF k[1] = g /\ snap[k[2]] # "" THEN snap[k[2]] ELSE vs[k]]

\* handleRefreshVoice(g), first critical section.
RefreshClear(r, g) ==
    /\ refreshes[r].pc = "idle"
    /\ r = Lowest({x \in RefreshIds : refreshes[x].pc = "idle"})
    /\ voiceStates' = ClearGuild(voiceStates, g)
    /\ refreshes' = [refreshes EXCEPT ![r] = [IdleRefresh EXCEPT !.pc = "fetch", !.g = g]]
    /\ lastRes' = NoRes
    /\ UNCHANGED <<lastEv, lookups, admitted, botVars>>

\* handleRefreshVoice: b.session.Guild(guildID), outside the lock; on an
\* error the handler returns its report.
RefreshFetch(r, err, snap) ==
    /\ refreshes[r].pc = "fetch"
    /\ refreshes' = [refreshes EXCEPT ![r] =
                       IF err # "nil" THEN IdleRefresh
                       ELSE [@ EXCEPT !.pc = "repop", !.snap = snap]]
    /\ UNCHANGED <<voiceStates, lastEv, lookups, lastRes, admitted, botVars>>

\* handleRefreshVoice, second critical section.
RefreshRepopulate(r) ==
    /\ refreshes[r].pc = "repop"
    /\ voiceStates' = Repopulate(voiceStates, refreshes[r].g, refreshes[r].snap)
    /\ refreshes' = [refreshes EXCEPT ![r].pc = "done"]
    /\ lastRes' = NoRes
    /\ UNCHANGED <<lastEv, lookups, admitted, botVars>>

\* handleRefreshVoice, lines 1347-1365: the report is written and returned.
RefreshReturn(r) ==
    /\ refreshes[r].pc = "done"
    /\ refreshes' = [refreshes EXCEPT ![r] = IdleRefresh]
    /\ UNCHANGED <<voiceStates, lastEv, lookups, lastRes, admitted, botVars>>

\* A lookup that never finds the user in the store.
StoreHitNever(vs, k) == FALSE

\* if vs, exists := b.voiceStates[key]; exists && vs.VoiceState.ChannelID != ""
StoreHit(vs, k) == vs[k] # ""

\* messageHandler's methods 3, 4 and 5: the session cache's voice state of
\* the user (m3), the cached guild's list (m4), the cache again after 100 ms
\* (m5); each is a channel id or "", and the first found is taken.
CacheLookup(m3, m4, m5) == IF m3 # "" THEN m3 ELSE IF m4 # "" THEN m4 ELSE m5

\* What a lookup that ends reports: the channel ("" for none: the command is
\* refused), the fetches it made, and the method that found the channel.
Returned(lk, ch, from) ==
    [g |-> lk.g, u |-> lk.u, ch |-> ch, fetches |-> lk.fetches, from |-> from]

\* A handler that goes on to HandleCommand whatever the lookup found.
RefusedNever(ch) == FALSE

\* Whether the message is answered with the not-in-voice error and dropped:
\* if voiceState == nil || voiceState.ChannelID == "" { ...; return }
Refused(ch) == ch = ""

\* The messages that went past that check, after a lookup that ended with
\* channel ch: each of them calls HandleCommand next.
Admit(n, ch) == IF Refused(ch) THEN n ELSE IF n < MaxCmds THEN n + 1 ELSE n

\* messageHandler, method 1: the store, under b.mu.
LookupStore(i, g, u) ==
    /\ lookups[i].pc = "idle"
    /\ i = Lowest({x \in LookupIds : lookups[x].pc = "idle"})
    /\ LET lk == [IdleLookup EXCEPT !.g = g, !.u = u]
       IN  IF StoreHit(voiceStates, Key(g, u))
           THEN /\ lastRes' = Returned(lk, voiceStates[Key(g, u)], "store")
                /\ admitted' = Admit(admitted, voiceStates[Key(g, u)])
                /\ UNCHANGED lookups
           ELSE /\ lookups' = [lookups EXCEPT ![i] = [lk EXCEPT !.pc = "api"]]
                /\ UNCHANGED <<lastRes, admitted>>
    /\ UNCHANGED <<voiceStates, lastEv, refreshes, botVars>>

\* messageHandler, method 2: s.Guild(m.GuildID) and the scan of its voice
\* states; when the fetch fails the cache methods follow at once.
LookupAPI(i, err, snap, m3, m4, m5) ==
    /\ lookups[i].pc = "api"
    /\ LET lk == [lookups[i] EXCEPT !.fetches = @ + 1]
       IN  IF err = "nil" /\ snap[lk.u] # ""
           THEN /\ lastRes' = Returned(lk, snap[lk.u], "api")
                /\ admitted' = Admit(admitted, snap[lk.u])
                /\ lookups' = [lookups EXCEPT ![i] = IdleLookup]
           ELSE IF err = "nil"
           THEN /\ lookups' = [lookups EXCEPT ![i] = [lk EXCEPT !.pc = "recheck"]]
                /\ UNCHANGED <<lastRes, admitted>>
           ELSE /\ lastRes' = Returned(lk, CacheLookup(m3, m4, m5), "cache")
                /\ admitted' = Admit(admitted, CacheLookup(m3, m4, m5))
                /\ lookups' = [lookups EXCEPT ![i] = IdleLookup]
    /\ UNCHANGED <<voiceStates, lastEv, refreshes, botVars>>

\* messageHandler, lines 238-246: the store once more under b.mu when the
\* fetched guild does not list the user, then the cache methods.
LookupRecheck(i, m3, m4, m5) ==
    /\ lookups[i].pc = "recheck"
    /\ LET lk == lookups[i]
           k == Key(lk.g, lk.u)
           ch == IF StoreHit(voiceStates, k) THEN voiceStates[k]
                 ELSE CacheLookup(m3, m4, m5)
       IN  /\ lastRes' = Returned(lk, ch, IF StoreHit(voiceStates, k) THEN "store"
                                          ELSE "cache")
           /\ admitted' = Admit(admitted, ch)
    /\ lookups' = [lookups EXCEPT ![i] = IdleLookup]
    /\ UNCHANGED <<voiceStates, lastEv, refreshes, botVars>>

\* ---------------------------------------------------------- specifications
\* What ChannelVoiceJoin can return: an error, a handle, or (as the nil
\* checks of Close, streamTestAudio and streamYouTubeAudio allow) no handle.
JoinResults == {"err", "live", "nil"}

\* The commands of the users in rooms gs.
Command(gs) ==
    \/ \E g \in gs, c \in Channels, j \in JoinResults, t \in SearchTracks \cup {NoTrack} :
         HandlePlayJoin(g, c, j, t)
    \/ HandlePause
    \/ HandleResume
    \/ HandleStop
    \/ HandleSkipNext
    \/ \E n \in 0..MaxQueue : HandleRemove(n)
    \/ \E e \in BOOLEAN : HandleSmartPlay(e)

HandStep ==
    \/ \E h \in BagToSet(hands) : HandlePlayAdd(h)
    \/ \E h \in BagToSet(hands) : HandlePlayCheck(h)
    \/ \E h \in BagToSet(hands) : HandleSkipCleanup(h)

LoopStep(l) ==
    \/ LoopStart(l)
    \/ LoopTop(l)
    \/ LoopAttempt(l)
    \/ LoopStreamEnd(l)
    \/ LoopPost(l)
    \/ LoopNext(l)
    \/ LoopExit(l)

Next ==
    \/ Command({"g1"})
    \/ HandStep
    \/ \E l \in LoopIds : LoopStep(l)

Spec == Init /\ [][Next]_vars

\* Every goroutine that can take a step eventually takes one: the Go
\* scheduler starves no runnable goroutine, and a session that can end ends.
Fairness ==
    /\ \A l \in LoopIds : WF_vars(LoopStep(l))
    /\ WF_vars(HandStep)

\* The state after construction, or after one !smartplay on.
InitFair ==
    /\ queue = NewQueue
    /\ ret = NoRet
    /\ isPlaying = FALSE
    /\ voiceConn = [g \in Guilds |-> NoConn]
    /\ smartPlay \in BOOLEAN
    /\ loops = [l \in LoopIds |-> IdleLoop]
    /\ hands = EmptyBag
    /\ ncmd = 0
    /\ lastCmd = NoCmd
    /\ panicked = FALSE
    /\ skipped = NoneSkipped
    /\ joinRet = NoJoin
    /\ voiceStates = [k \in Keys |-> ""]
    /\ lastEv = NoEv
    /\ refreshes = [r \in RefreshIds |-> IdleRefresh]
    /\ lookups = [i \in LookupIds |-> IdleLookup]
    /\ lastRes = NoRes
    /\ admitted = 0
    /\ heap = NewHeap
    /\ locks = NoLocks

FairSpec == InitFair /\ [][Next]_vars /\ Fairness

\* Play commands whose join and search succeed, from either room, and the
\* goroutines they start.  With no other command the queue never shrinks and
\* smart play stays off, so LoopNext and LoopExit are never enabled.
NextPlay ==
    \/ \E g \in Guilds, c \in Channels, j \in {"live", "nil"}, t \in SearchTracks :
         HandlePlayJoin(g, c, j, t)
    \/ \E h \in BagToSet(hands) : HandlePlayAdd(h)
    \/ \E h \in BagToSet(hands) : HandlePlayCheck(h)
    \/ \E l \in LoopIds : LoopStart(l)
    \/ \E l \in LoopIds : LoopTop(l)
    \/ \E l \in LoopIds : LoopAttempt(l)
    \/ \E l \in LoopIds : LoopStreamEnd(l)
    \/ \E l \in LoopIds : LoopPost(l)

SpecPlay == Init /\ [][NextPlay]_vars

\* Play commands from either room with every outcome of the join and of the
\* search, and the goroutines they start.
NextRooms ==
    \/ \E g \in Guilds, c \in Channels, j \in JoinResults, t \in SearchTracks \cup {NoTrack} :
         HandlePlayJoin(g, c, j, t)
    \/ \E h \in BagToSet(hands) : HandlePlayAdd(h)
    \/ \E h \in BagToSet(hands) : HandlePlayCheck(h)
    \/ \E l \in LoopIds : LoopStart(l)
    \/ \E l \in LoopIds : LoopTop(l)
    \/ \E l \in LoopIds : LoopAttempt(l)
    \/ \E l \in LoopIds : LoopStreamEnd(l)
    \/ \E l \in LoopIds : LoopPost(l)

SpecRooms == Init /\ [][NextRooms]_vars

\* The Queue alone.
NextQueue ==
    \/ \E t \in Tracks : QAdd(t)
    \/ \E i \in -1..MaxLen : QRemove(i)
    \/ QCurrent
    \/ QNext
    \/ QClear

SpecQueue == Init /\ [][NextQueue]_vars

\* The Queue under its callers' Add, Next and Remove calls and the remove
\* command, with every track number a user can give.
NextRemove ==
    \/ \E t \in Tracks : QAdd(t)
    \/ QNext
    \/ \E i \in -1..MaxLen : QRemove(i)
    \/ \E n \in 0..MaxLen + 1 : HandleRemove(n)

SpecRemove == Init /\ [][NextRemove]_vars

\* joinVoiceChannel alone, for every guild, channel and outcome of the join.
NextJoin ==
    \E g \in Guilds, c \in VoiceChannels, j \in JoinResults : JoinVoiceChannel(g, c, j)

SpecJoin == Init /\ [][NextJoin]_vars

\* The presence store under voice state events, Ready events and refreshes.
NextPresence ==
    \/ \E g \in Guilds, u \in Users, c \in VoiceChannels \cup {""} : VoiceStateUpdate(g, u, c)
    \/ \E st \in [Keys -> VoiceChannels \cup {""}] : ReadyHandler(st)
    \/ \E r \in RefreshIds, g \in Guilds : RefreshClear(r, g)
    \/ \E r \in RefreshIds, err \in {"nil", "err"}, snap \in Snapshots : RefreshFetch(r, err, snap)
    \/ \E r \in RefreshIds : RefreshRepopulate(r)
    \/ \E r \in RefreshIds : RefreshReturn(r)

SpecPresence == Init /\ [][NextPresence]_vars

\* The voice lookup of voice-required commands, under voice state events.
NextResolve ==
    \/ \E g \in Guilds, u \in Users, c \in VoiceChannels \cup {""} : VoiceStateUpdate(g, u, c)
    \/ \E i \in LookupIds, g \in Guilds, u \in Users : LookupStore(i, g, u)
    \/ \E i \in LookupIds, err \in {"nil", "err"}, snap \in Snapshots,
          m3, m4, m5 \in VoiceChannels \cup {""} : LookupAPI(i, err, snap, m3, m4, m5)
    \/ \E i \in LookupIds, m3, m4, m5 \in VoiceChannels \cup {""} : LookupRecheck(i, m3, m4, m5)

SpecResolve == Init /\ [][NextResolve]_vars

\* messageHandler, line 312: a message that went past the voice check and
\* has not called HandleCommand yet.
Dispatchable == ncmd < admitted

\* The voice-required commands of one user behind messageHandler's voice
\* check: voice state events, the lookups of the messages, and the handlers
\* of the messages that passed.  The goroutines the handlers start take no
\* step here: no step of theirs is behind the voice check.
\* The channel a voice state can name in that check: the one the user's
\* commands are played in, or none.
GateChannels == {"c1", ""}

NextGate ==
    \/ \E c \in GateChannels : VoiceStateUpdate("g1", "u1", c)
    \/ \E i \in LookupIds : LookupStore(i, "g1", "u1")
    \/ \E i \in LookupIds, err \in {"nil", "err"}, snap \in [Users -> GateChannels],
          m3, m4, m5 \in GateChannels : LookupAPI(i, err, snap, m3, m4, m5)
    \/ \E i \in LookupIds, m3, m4, m5 \in GateChannels : LookupRecheck(i, m3, m4, m5)
    \/ \E t \in {TrackM, NoTrack} : Dispatchable /\ HandlePlayJoin("g1", "c1", "live", t)
    \/ Dispatchable /\ HandlePause
    \/ Dispatchable /\ HandleResume
    \/ Dispatchable /\ HandleStop
    \/ Dispatchable /\ HandleSkipNext
    \/ \E h \in BagToSet(hands) : HandlePlayAdd(h)
    \/ \E h \in BagToSet(hands) : HandlePlayCheck(h)
    \/ \E h \in BagToSet(hands) : HandleSkipCleanup(h)

SpecGate == Init /\ [][NextGate]_vars

\* ------------------------------------------------------ properties: Queue
\* A Remove that succeeded and left tracks behind is the call last made.
Removed == ret.op = "Remove" /\ ret.err = "nil"

\* C3: after every sequence of Add, Remove, Next and Clear the cursor is -1
\* or a valid index: current = -1 or 0 <= current < len(tracks).
CursorInRange ==
    queue.current = -1 \/ (0 <= queue.current /\ queue.current < Len(queue.tracks))

\* A Remove at or before a cursor that is not at the front moved the cursor.
CursorMovedByRemove ==
    /\ Removed
    /\ ret.arg <= ret.pre.current
    /\ ret.pre.current > 0
    /\ queue.current = ret.pre.current - 1

\* C4: the cursor is -1 exactly when the queue is empty, so Current()
\* succeeds whenever the queue holds at least one track.
CursorUnsetIffEmpty ==
    /\ (queue.current = -1) <=> (Len(queue.tracks) = 0)
    /\ Len(queue.tracks) > 0 => QueueCurrent(queue).err = "nil"

\* C5: Remove(0) on a queue of at least two tracks whose cursor is 0 leaves
\* the cursor at 0, and Current() returns the former second track.
RemoveFrontKeepsCursor ==
    (Removed /\ ret.arg = 0 /\ ret.pre.current = 0 /\ Len(ret.pre.tracks) >= 2)
        => /\ queue.current = 0
           /\ QueueList(queue) = Tail(ret.pre.tracks)
           /\ QueueCurrent(queue) = [track |-> ret.pre.tracks[2], err |-> "nil"]

\* C6: whenever Remove(i) succeeds with i strictly before the cursor,
\* Current() returns the same track after the call as before it.
RemoveBeforeCursorKeepsCurrent ==
    (Removed /\ ret.arg < ret.pre.current)
        => /\ QueueCurrent(queue).err = "nil"
           /\ QueueCurrent(queue) = QueueCurrent(ret.pre)

\* A Remove strictly before the cursor, with a different track behind the
\* current one, so that an unmoved cursor would show.
RemovedBeforeCursor ==
    /\ Removed
    /\ ret.arg < ret.pre.current
    /\ ret.pre.current + 1 < Len(ret.pre.tracks)
    /\ ret.pre.tracks[ret.pre.current + 2] # ret.pre.tracks[ret.pre.current + 1]

\* ------------------------------------------------- properties: controller
\* C1: at most one playback loop executes at any time, under every
\* interleaving of play, pause, resume, stop and skip with a running loop.
AtMostOneLoop == Cardinality(Active) <= 1

\* No handler is in flight and no started goroutine has yet to run.
Settled ==
    /\ InFlight = 0
    /\ \A l \in LoopIds : loops[l].pc # "start"

\* C2: concurrent handlePlay calls on an empty queue with no loop running
\* result in exactly one active playback loop (a second startPlaying returns
\* without looping), and the track of every call ends up in the queue.
OneLoopAfterPlays ==
    ~panicked =>
        /\ Cardinality(Active) <= 1
        /\ (Settled /\ ncmd >= 1) =>
               /\ Cardinality(Active) = 1
               /\ Len(queue.tracks) = ncmd
               /\ \A i \in 1..Len(queue.tracks) : queue.tracks[i] \in SearchTracks

\* Two handlePlay calls both read isPlaying as false and both started a
\* goroutine: one is in the loop, the other has yet to take the lock.
TwoPlaysBothSpawned ==
    /\ ncmd = 2
    /\ Len(queue.tracks) = 2
    /\ InFlight = 0
    /\ Cardinality(Active) = 1
    /\ \E l \in LoopIds : loops[l].pc = "start"

\* The goroutine is past the streaming of a track that failed in every room.
StreamFailed(l) ==
    /\ loops[l].pc \in {"post", "next"}
    /\ loops[l].last = "Failed to stream track"

\* The goroutine's step from past the streaming: recommendations first with
\* smart play, else b.queue.Next(), which moves the cursor on circularly and
\* keeps the loop going unless the queue was emptied meanwhile.
Advances(l) ==
    \/ loops[l].pc = "post" /\ smartPlay /\ loops'[l].pc = "next"
    \/ Len(queue.tracks) = 0 /\ loops'[l].pc = "exit"
    \/ /\ Len(queue.tracks) > 0
       /\ loops'[l].pc = "top"
       /\ queue' = [queue EXCEPT !.current = (queue.current + 1) % Len(queue.tracks)]

\* C7: with one joined room, a non-placeholder track whose every streaming
\* attempt fails is attempted exactly 3 times, with waits of 1 then 2 units
\* before the retries, and after the third failure the loop advances.
RealTrackRetriedThrice ==
    /\ [](\A l \in LoopIds :
            (StreamFailed(l) /\ ~IsMock(loops[l].url) /\ Cardinality(loops[l].conns) = 1)
               => loops[l].log = << <<"attempt", 1>>, <<"wait", 1>>, <<"attempt", 2>>,
                                    <<"wait", 2>>, <<"attempt", 3>> >>)
    /\ [][\A l \in LoopIds :
            (StreamFailed(l) /\ ~IsMock(loops[l].url) /\ Cardinality(loops[l].conns) = 1
               /\ loops'[l] # loops[l] /\ ~panicked') => Advances(l)]_vars

\* A real location failed in the one joined room and the loop is about to advance.
RealTrackFailed ==
    \E l \in LoopIds :
        /\ loops[l].pc = "post"
        /\ loops[l].last = "Failed to stream track"
        /\ ~IsMock(loops[l].url)
        /\ Cardinality(loops[l].conns) = 1
        /\ Len(queue.tracks) > 0

\* C8: a placeholder track whose streaming fails is attempted exactly once,
\* with no wait and no retry, and the loop then advances.
MockTrackTriedOnce ==
    /\ [](\A l \in LoopIds :
            (StreamFailed(l) /\ IsMock(loops[l].url))
               => loops[l].log = << <<"attempt", 1>> >>)
    /\ [][\A l \in LoopIds :
            (StreamFailed(l) /\ IsMock(loops[l].url)
               /\ loops'[l] # loops[l] /\ ~panicked') => Advances(l)]_vars

\* A placeholder failed to stream and the loop is about to advance.
MockTrackFailed ==
    \E l \in LoopIds :
        /\ loops[l].pc = "post"
        /\ loops[l].last = "Failed to stream track"
        /\ IsMock(loops[l].url)
        /\ Len(queue.tracks) > 0

\* C9: no track failure ends the playback loop.  A goroutine at the top of
\* the loop with playback on and a current track stays in the loop whatever
\* the resolution returns, and a resolution error moves the cursor on; no
\* outcome of a streaming attempt leaves the loop; and past a track that
\* failed the goroutine advances, ending only on an emptied queue.
FailureKeepsLoop ==
    [][\A l \in LoopIds : ~panicked' =>
         /\ (loops[l].pc = "top" /\ isPlaying /\ QueueCurrent(queue).err = "nil")
               => loops'[l].pc \in {"top", "attempt", "post"}
         /\ (loops[l].pc = "top" /\ loops'[l] # loops[l]
               /\ loops'[l].last = "Failed to get stream URL")
               => (loops'[l].pc = "top" /\ queue' = QueueNext(queue).q)
         /\ loops[l].pc \in {"attempt", "blocked"}
               => loops'[l].pc \in {"attempt", "blocked", "post"}
         /\ (StreamFailed(l) /\ loops'[l] # loops[l]) => Advances(l)]_vars

\* A goroutine back at the top of the loop after a track that failed, with
\* the queue still holding tracks and playback on.
LoopedOnAfterFailure ==
    \E l \in LoopIds :
        /\ loops[l].pc = "top"
        /\ loops[l].last \in {"Failed to get stream URL", "Failed to stream track"}
        /\ Len(queue.tracks) >= 2
        /\ isPlaying

\* Stop was the last command, no handler was in flight, and no command follows.
StoppedForGood ==
    /\ lastCmd.cmd = "stop"
    /\ InFlight = 0
    /\ ncmd = MaxCmds

\* C10: after stop the queue is empty with cursor -1 and isPlaying is false;
\* and if no further command follows, the playback loop eventually terminates.
StopHaltsLoop ==
    /\ [][HandleStop => (queue' = [tracks |-> <<>>, current |-> -1] /\ ~isPlaying')]_vars
    /\ (StoppedForGood ~> (\A l \in LoopIds : loops[l].pc = "idle"))

\* ------------------------------------------------- properties: commands
\* C11: after a skip moved the cursor to track T while a goroutine held a
\* track, and reported T, the next track that goroutine takes from the queue
\* is T: the cursor is where the skip left it, moved by one position in
\* total.
SkipPlaysReportedTrack ==
    [][\A l \in LoopIds :
         (LoopTop(l) /\ isPlaying /\ skipped[l] /\ lastCmd.cmd = "skip"
            /\ QueueCurrent(queue).err = "nil")
         => QueueCurrent(queue).track.Title = lastCmd.res]_vars

\* C12: pause and resume leave the queue and its cursor as they are, and a
\* goroutine that is in the playback loop with a current track to play does
\* not leave the loop while the last command is the pause that paused it.
PauseKeepsLoopRunning ==
    /\ [][(HandlePause \/ HandleResume) => queue' = queue]_vars
    /\ [][\A l \in LoopIds :
            (lastCmd = [cmd |-> "pause", res |-> "Playback paused"]
               /\ InLoop(l) /\ loops[l].pc # "exit" /\ LoopStep(l)
               /\ QueueCurrent(queue).err = "nil" /\ ~panicked')
            => InLoop(l)']_vars

\* C13: a pause delivered while isPlaying is false answers "Nothing is
\* playing" without an error and changes neither the queue, the cursor, the
\* flag, nor any session (its stream's paused state included).
PauseWhenIdleIsNoOp ==
    [][(HandlePause /\ ~isPlaying)
         => (lastCmd' = [cmd |-> "pause", res |-> "Nothing is playing"]
               /\ UNCHANGED <<queue, isPlaying, loops, voiceConn>>)]_vars

\* A pause was answered "Nothing is playing" while a goroutine was blocked on
\* a stream that an earlier pause had paused.
PausedTwice ==
    /\ lastCmd = [cmd |-> "pause", res |-> "Nothing is playing"]
    /\ \E l \in LoopIds : loops[l].pc = "blocked" /\ loops[l].paused

\* C20: a handlePlay whose voice join fails returns the error, adds no track
\* (the queue and its cursor are unchanged), and neither starts a goroutine
\* nor goes on to a step that would.
FailedJoinAddsNothing ==
    [][\A g \in Guilds, c \in Channels, t \in SearchTracks \cup {NoTrack} :
         (HandlePlayJoin(g, c, "err", t) /\ ~(Joined(g) /\ voiceConn[g].channelID = c))
         => (lastCmd' = [cmd |-> "play", res |-> "failed to join voice channel"]
               /\ UNCHANGED <<queue, hands, loops, isPlaying>>)]_vars

\* A play command from one room was refused because the join failed, while
\* the queue holds a track that a play command from the other room added and
\* a goroutine is streaming it: the refused room has no session.
PlayRefusedOnJoinError ==
    /\ lastCmd = [cmd |-> "play", res |-> "failed to join voice channel"]
    /\ \E g \in Guilds : ~Joined(g)
    /\ Len(queue.tracks) = 1 /\ InFlight = 0
    /\ Cardinality(Active) = 1

\* ------------------------------------------- properties: presence store
\* The store's answer for (g, u): the channel id, "" when it finds nothing.
Lookup(vs, g, u) == vs[Key(g, u)]

\* C14: no step a refresh takes once its fetch is issued changes the record
\* of a user that its snapshot does not list; so the record that a join
\* event wrote after the fetch survives the refresh, and the lookup returns
\* the event's channel.
EventRecordSurvivesRefresh ==
    [][\A r \in RefreshIds :
         /\ (\E err \in {"nil", "err"}, snap \in Snapshots : RefreshFetch(r, err, snap))
            => voiceStates' = voiceStates
         /\ (RefreshRepopulate(r) \/ RefreshReturn(r))
            => \A u \in Users :
                 refreshes[r].snap[u] = ""
                 => Lookup(voiceStates', refreshes[r].g, u)
                      = Lookup(voiceStates, refreshes[r].g, u)]_vars

\* A refresh has repopulated the store from a snapshot that does not list the
\* user whose join event was applied after the fetch, and the lookup returns
\* the event's channel.
JoinSurvivedRefresh ==
    \E r \in RefreshIds :
      /\ refreshes[r].pc = "done" /\ refreshes[r].late
      /\ lastEv.g = refreshes[r].g /\ lastEv.c # ""
      /\ refreshes[r].snap[lastEv.u] = ""
      /\ Lookup(voiceStates, lastEv.g, lastEv.u) = lastEv.c

\* C15: when a voice state event of the refreshed guild was applied after the
\* refresh issued its fetch, the repopulate step leaves the store with
\* the channel of the latest event for that event's user.
RefreshKeepsNewerEvent ==
    [][\A r \in RefreshIds :
         (RefreshRepopulate(r) /\ refreshes[r].late /\ lastEv.g = refreshes[r].g)
         => Lookup(voiceStates', lastEv.g, lastEv.u) = lastEv.c]_vars

\* C16: after a join event for (g, u, c) the lookup for (g, u) returns c,
\* after a leave event (empty channel id) it finds nothing, and neither
\* event changes the record of any other (guild, user).
VoiceStateTracked ==
    [][\A g \in Guilds, u \in Users, c \in VoiceChannels \cup {""} :
         VoiceStateUpdate(g, u, c)
         => /\ Lookup(voiceStates', g, u) = c
            /\ \A k \in Keys \ {Key(g, u)} : voiceStates'[k] = voiceStates[k]]_vars

\* A leave event removed a record that was in the store, while another
\* user's record is in the store.
LeftAfterJoin ==
    /\ lastEv.c = "" /\ lastEv.was # ""
    /\ Lookup(voiceStates, lastEv.g, lastEv.u) = ""
    /\ \E k \in Keys : voiceStates[k] # ""

\* C17: a lookup for a user whose record is in the store returns the stored
\* channel at its first step, having made no Guild fetch.
StoredRecordNeedsNoFetch ==
    [][\A i \in LookupIds, g \in Guilds, u \in Users :
         (LookupStore(i, g, u) /\ voiceStates[Key(g, u)] # "")
         => /\ lastRes' = [g |-> g, u |-> u, ch |-> voiceStates[Key(g, u)],
                           fetches |-> 0, from |-> "store"]
            /\ lookups'[i].pc = "idle"]_vars

\* A lookup was answered from the store.
ServedFromStore ==
    /\ lastRes.from = "store" /\ lastRes.fetches = 0
    /\ lastRes.ch # "" /\ lastRes.ch = Lookup(voiceStates, lastRes.g, lastRes.u)

\* C18: a lookup that misses the store and finds the user in the fetched
\* guild returns that channel after exactly one fetch, and a lookup for the
\* same user that starts next, with no write to the store in between, is
\* answered from the store without a fetch.
FetchedRecordIsCached ==
    /\ [][\A i \in LookupIds, snap \in Snapshots, m3, m4, m5 \in VoiceChannels \cup {""} :
            (LookupAPI(i, "nil", snap, m3, m4, m5) /\ snap[lookups[i].u] # "")
            => lastRes' = [g |-> lookups[i].g, u |-> lookups[i].u,
                           ch |-> snap[lookups[i].u], fetches |-> 1, from |-> "api"]]_vars
    /\ [][\A i \in LookupIds :
            (lastRes.from = "api" /\ LookupStore(i, lastRes.g, lastRes.u))
            => (lastRes'.from = "store" /\ lastRes'.fetches = 0
                  /\ lastRes'.ch = lastRes.ch)]_vars

\* ------------------------------------------- properties: joinVoiceChannel
\* C19: joinVoiceChannel(g, c) makes no Disconnect and no ChannelVoiceJoin
\* call and keeps the session when g is already in c; when g is in another
\* channel it calls Disconnect on the old session before ChannelVoiceJoin;
\* and after a call that returned no error voiceConn[g], the one session of
\* g, has channelID c.
JoinReusesOrSwitches ==
    joinRet # NoJoin =>
      LET pre == joinRet.pre
      IN  /\ (pre # NoConn /\ pre.channelID = joinRet.c)
               => (joinRet.calls = <<>> /\ joinRet.err = "nil"
                     /\ voiceConn[joinRet.g] = pre)
          /\ (pre # NoConn /\ pre.channelID # joinRet.c /\ pre.connection # "nil")
               => joinRet.calls = <<"Disconnect", "ChannelVoiceJoin">>
          /\ pre = NoConn => joinRet.calls = <<"ChannelVoiceJoin">>
          /\ joinRet.err = "nil" => voiceConn[joinRet.g].channelID = joinRet.c

\* A guild that was in one channel was moved to the other: the old session
\* was disconnected, then the join was made, and the new session is
\* installed while the other guild has a session of its own.
JoinSwitchedChannel ==
    /\ joinRet.pre # NoConn /\ joinRet.pre.channelID # joinRet.c
    /\ joinRet.err = "nil"
    /\ joinRet.calls = <<"Disconnect", "ChannelVoiceJoin">>
    /\ voiceConn[joinRet.g].channelID = joinRet.c
    /\ \E g \in Guilds \ {joinRet.g} : Joined(g)

\* ------------------------------------------- properties: the playback loop
\* C21: a track whose source cannot be resolved is skipped, not retried.  The
\* step of the loop in which the resolution fails makes no streaming attempt
\* (the goroutine is back at the top of the loop with no session started),
\* moves the cursor to another position, and the track the loop resolves
\* next is the one at that other position, not the one that just failed.
UnresolvableTrackIsSkipped ==
    [][\A l \in LoopIds :
         (LoopTop(l) /\ loops'[l].pc = "top")
           => /\ loops'[l].enc = "none" /\ voiceConn' = voiceConn
              /\ queue'.tracks = queue.tracks
              /\ queue'.current # queue.current]_vars

\* handlePlay has appended track t and is about to read isPlaying, and no
\* command follows it.
Enqueued(t) ==
    /\ \E h \in BagToSet(hands) : h.pc = "check" /\ h.track = t
    /\ ncmd = MaxCmds

\* C22: every successful enqueue leaves a playback loop running.  When
\* handlePlay returns after appending a track, a goroutine of startPlaying
\* is running (in its loop, or just started by this call); and, with every
\* goroutine scheduled fairly and no command after the play, the appended
\* track is eventually handed to a streaming attempt.
EnqueueLeavesLoopRunning ==
    /\ [][(\E h \in BagToSet(hands) : HandlePlayCheck(h))
             => (\E l \in LoopIds : loops'[l].pc # "idle")]_vars
    /\ \A t \in SearchTracks :
         Enqueued(t) ~> (\E l \in LoopIds : /\ loops[l].pc \in {"attempt", "blocked"}
                                            /\ loops[l].track = t)

\* C23: the loop goes idle at its read of the current track only on an
\* empty queue.  Every step at the top of the loop that clears isPlaying and
\* returns is taken with no track in the queue.
IdleOnlyOnEmptyQueue ==
    [][\A l \in LoopIds :
         (LoopTop(l) /\ isPlaying /\ ~isPlaying') => Len(queue.tracks) = 0]_vars

VoiceCheckRefuses ==
    [][/\ \A i \in LookupIds :
            (\/ /\ lookups[i].pc = "recheck"
                /\ voiceStates[Key(lookups[i].g, lookups[i].u)] = ""
                /\ LookupRecheck(i, "", "", "")
             \/ /\ lookups[i].pc = "api"
                /\ \E snap \in Snapshots : LookupAPI(i, "err", snap, "", "", ""))
            => /\ lastRes'.ch = "" /\ lastRes'.from = "cache"
               /\ lookups'[i].pc = "idle"
               /\ admitted' = admitted
               /\ UNCHANGED <<queue, isPlaying, voiceConn, loops, hands, ncmd, lastCmd>>
       /\ admitted' # admitted => lastRes'.ch # ""
       /\ ncmd' # ncmd => ncmd < admitted]_vars

\* A command was refused while a track was queued, playback was on and the
\* guild had a session: the user had left the channel, the fetched guild did
\* not list the user, and every command so far belongs to an earlier lookup
\* that found the channel.
RefusedAfterLeaving ==
    /\ lastRes.ch = "" /\ lastRes.from = "cache" /\ lastRes.fetches = 1
    /\ Lookup(voiceStates, lastRes.g, lastRes.u) = ""
    /\ lastEv.was # "" /\ lastEv.c = ""
    /\ ncmd = admitted /\ ncmd >= 2
    /\ Len(queue.tracks) > 0 /\ isPlaying /\ Joined("g1")

\* ------------------------------------------- properties: Queue operations
\* C26: Add appends the track at the end of the list; if the queue was empty
\* the cursor becomes 0 and Current() returns the added track; otherwise the
\* cursor is where it was, and the tracks before the added one are the same.
AddAppendsAndKeepsCursor ==
    ret.op = "Add" =>
        /\ queue.tracks = Append(ret.pre.tracks, ret.track)
        /\ Len(ret.pre.tracks) = 0
             => /\ queue.current = 0
                /\ QueueCurrent(queue) = [track |-> ret.track, err |-> "nil"]
        /\ Len(ret.pre.tracks) > 0 => queue.current = ret.pre.current

\* C27: Next on a queue of n > 0 tracks moves the cursor to (current + 1)
\* mod n, from the last index to 0, leaves the list as it is and returns
\* the track at the new cursor; on a queue of one track it returns that
\* track every time.
NextIsCircular ==
    (ret.op = "Next" /\ Len(ret.pre.tracks) > 0) =>
        LET n == Len(ret.pre.tracks)
        IN  /\ ret.err = "nil"
            /\ queue.tracks = ret.pre.tracks
            /\ queue.current = (ret.pre.current + 1) % n
            /\ ret.pre.current = n - 1 => queue.current = 0
            /\ ret.track = queue.tracks[queue.current + 1]
            /\ n = 1 => (ret.track = queue.tracks[1] /\ QueueNext(queue).track = ret.track)

\* Next wrapped from the last of several tracks to the first.
NextWrapped ==
    /\ ret.op = "Next"
    /\ Len(ret.pre.tracks) >= 2
    /\ ret.pre.current = Len(ret.pre.tracks) - 1
    /\ queue.current = 0
    /\ ret.track = queue.tracks[1]
    /\ ret.track # queue.tracks[Len(queue.tracks)]

\* C28: on an empty queue Current and Next return ErrQueueEmpty and no
\* track, and the queue is empty with cursor -1 afterwards.
EmptyQueueErrors ==
    (ret.op \in {"Current", "Next"} /\ Len(ret.pre.tracks) = 0) =>
        /\ ret.err = "ErrQueueEmpty"
        /\ ret.track = NoTrack
        /\ queue = [tracks |-> <<>>, current |-> -1]

\* Current was called on a queue that has no track.
CurrentOnEmptyQueue ==
    /\ ret.op = "Current"
    /\ ret.pre = [tracks |-> <<>>, current |-> -1]
    /\ ret.err = "ErrQueueEmpty"
    /\ queue = ret.pre

\* C30: Clear leaves the list empty and the cursor at -1 whatever the queue
\* held; then Current returns ErrQueueEmpty, List returns nothing, and an
\* Add of any track leaves that one track with the cursor at 0.
ClearResets ==
    ret.op = "Clear" =>
        /\ queue = [tracks |-> <<>>, current |-> -1]
        /\ QueueCurrent(queue) = [track |-> NoTrack, err |-> "ErrQueueEmpty"]
        /\ QueueList(queue) = <<>>
        /\ \A t \in Tracks : QueueAdd(queue, t) = [tracks |-> <<t>>, current |-> 0]

\* Clear was called on a queue of several tracks whose cursor had advanced.
ClearedAdvancedQueue ==
    /\ ret.op = "Clear"
    /\ Len(ret.pre.tracks) >= 2
    /\ ret.pre.current >= 1
    /\ queue = NewQueue

\* C29: Remove with an index below 0 or at or above the length of the list
\* returns ErrInvalidIndex and leaves the list and the cursor as they were;
\* and handleRemove with the user's number n calls Remove(n - 1): for n
\* outside 1..length it returns that error with the queue unchanged, for n
\* inside it removes the n-th track.
InvalidIndexRejected ==
    [][/\ \A i \in -1..MaxLen :
            (QRemove(i) /\ (i < 0 \/ i >= Len(queue.tracks)))
            => (ret'.err = "ErrInvalidIndex" /\ queue' = queue)
       /\ \A n \in 0..MaxLen + 1 :
            HandleRemove(n) =>
              IF n - 1 < 0 \/ n - 1 >= Len(queue.tracks)
              THEN /\ lastCmd' = [cmd |-> "remove", res |-> "ErrInvalidIndex"]
                   /\ queue' = queue
              ELSE /\ lastCmd' = [cmd |-> "remove", res |-> "nil"]
                   /\ queue'.tracks = RemoveAt(queue.tracks, n - 1)]_vars

\* The remove command was refused for a number past the end of a list of
\* several tracks whose cursor had advanced, after a Remove call with a
\* negative index was refused too.
RemoveRefused ==
    /\ lastCmd = [cmd |-> "remove", res |-> "ErrInvalidIndex"]
    /\ ret.op = "Remove" /\ ret.arg < 0 /\ ret.err = "ErrInvalidIndex"
    /\ Len(queue.tracks) >= 2
    /\ queue.current >= 1

\* ------------------------------------------------- streamAudio on its own
\* "spotify_mock_" + query + "_1"
SpotifyMockId == [pre |-> "spotify_mock_", len |-> 20, slash |-> FALSE, host |-> ""]

\* What SpotifyProvider.Search puts first in its results: a real id without
\* an API key, a placeholder of getMockResults with one.
TrackS == [Title |-> "S", URL |-> SpotifyId, Platform |-> "sp", Genre |-> "pop"]
TrackSM == [Title |-> "SM", URL |-> SpotifyMockId, Platform |-> "sp", Genre |-> "unknown"]

\* The locations streamAudio is called with.
Locations == {EmptyStr, YouTubeId, SpotifyId, MockId, SpotifyMockId, RecId, MediaURL}

\* One call streamAudio(url, vc) with the guild's VoiceConnection, up to its
\* return.  A session streamDirectAudio started is stored in vc, runs to
\* its end and yields the error of its done channel.
StreamAudio(url, g) ==
    /\ ~panicked
    /\ Joined(g)
    /\ \E out \in streamAudio(url, voiceConn[g]) :
         /\ voiceConn' = IF out = "start" THEN [voiceConn EXCEPT ![g].sess = -1]
                         ELSE voiceConn
         /\ \E res \in (IF out = "start" THEN {"err", "nil"} ELSE {out}) :
              ret' = [op |-> "streamAudio", arg |-> -1, pre |-> queue,
                      track |-> [NoTrack EXCEPT !.URL = url], err |-> res]
    /\ UNCHANGED <<queue, isPlaying, smartPlay, loops, hands, ncmd, lastCmd, panicked,
                   skipped, joinRet, storeVars>>

\* joinVoiceChannel and streamAudio calls, for every location.
NextStream ==
    \/ \E g \in Guilds, c \in VoiceChannels, j \in JoinResults : JoinVoiceChannel(g, c, j)
    \/ \E g \in Guilds, url \in Locations : StreamAudio(url, g)

SpecStream == Init /\ [][NextStream]_vars

NoAttemptAfterStopOrSkip ==
    [][\A l \in LoopIds :
         (/\ loops[l].pc = "attempt"
          /\ \/ skipped[l]
             \/ (lastCmd.cmd = "stop" /\ Len(queue.tracks) = 0))
           => ~LoopAttempt(l)]_vars

\* C33: no voice join and no disconnect is performed while b.mu is held.
\* joinVoiceChannel holds b.mu from its first statement to its return, so
\* the claim requires that no joinVoiceChannel call makes a call on the
\* Discord session or on a connection.
NoCallsUnderLock == joinRet.calls = <<>>

\* ------------------------------------------------ accesses outside b.mu
\* A skip handler between its Next and its return: it ranges over
\* b.voiceConn and reads vc.encoder, and it never takes b.mu.
SkipReadsHandles(h) == h.pc = "cleanup"

\* A goroutine about to call streamAudio for a location and a connection
\* with which streamDirectAudio starts a session: it assigns vc.encoder and
\* vc.stream, after startPlaying released b.mu.
StreamWritesHandles(l) ==
    /\ loops[l].pc = "attempt"
    /\ "start" \in streamAudio(loops[l].url, voiceConn[loops[l].guild])

\* C34: no two tasks access a session's encoder and stream handles at the
\* same time without b.mu: no skip handler is at its unlocked read of the
\* handles while a goroutine is at its unlocked write of them.
HandlesGuardedByMu ==
    ~ \E h \in BagToSet(hands), l \in LoopIds :
         SkipReadsHandles(h) /\ StreamWritesHandles(l)

\* ------------------------------------------- the *Track a goroutine holds
\* What a held pointer reads now.
Deref(hp, l) ==
    IF hp.ref[l].slot > 0 THEN hp.cells[hp.ref[l].slot] ELSE hp.ref[l].val

\* q.tracks = append(q.tracks, track) on a slice of length n: the element is
\* written behind the last one; a full array is left for a new one of twice
\* the capacity (the runtime doubles a small slice), and the pointers into
\* the old one keep what they read.
HeapAdd(hp, n, track) ==
    IF n < Len(hp.cells)
    THEN [hp EXCEPT !.cells[n + 1] = track]
    ELSE [cells |-> [i \in 1..(IF n = 0 THEN 1 ELSE 2 * n) |->
                       IF i <= n THEN hp.cells[i]
                       ELSE IF i = n + 1 THEN track ELSE NoTrack],
          ref |-> [l \in LoopIds |-> [slot |-> 0, val |-> Deref(hp, l)]]]

RECURSIVE HeapAddAll(_, _, _)
HeapAddAll(hp, n, ts) ==
    IF ts = <<>> THEN hp ELSE HeapAddAll(HeapAdd(hp, n, Head(ts)), n + 1, Tail(ts))

\* q.tracks = append(q.tracks[:index], q.tracks[index+1:]...) on a slice of
\* length n: the elements behind index move one place down in the same
\* array, and the last place keeps its element.
HeapRemove(hp, n, index) ==
    [hp EXCEPT !.cells = [i \in 1..Len(hp.cells) |->
                            IF i > index /\ i < n THEN hp.cells[i + 1] ELSE hp.cells[i]]]

\* handlePlay: b.queue.Add(track)
AliasAdd(t) ==
    /\ Len(queue.tracks) < MaxQueue
    /\ queue' = QueueAdd(queue, t)
    /\ heap' = HeapAdd(heap, Len(queue.tracks), t)
    /\ UNCHANGED <<ret, isPlaying, voiceConn, smartPlay, loops, hands, ncmd, lastCmd, panicked,
                   skipped, joinRet, presenceVars, locks>>

\* handleRemove: b.queue.Remove(index)
AliasRemove(index) ==
    LET r == QueueRemove(queue, index)
    IN  /\ queue' = r.q
        /\ heap' = IF r.err = "nil" THEN HeapRemove(heap, Len(queue.tracks), index)
                   ELSE heap
        /\ UNCHANGED <<ret, isPlaying, voiceConn, smartPlay, loops, hands, ncmd, lastCmd,
                       panicked, skipped, joinRet, presenceVars, locks>>

\* startPlaying, line 627: track, err := b.queue.Current(), the pointer
\* &q.tracks[q.current]; the goroutine then streams the track.
AliasCurrent(l) ==
    /\ loops[l].pc = "idle"
    /\ LET cur == QueueCurrent(queue)
       IN  /\ cur.err = "nil"
           /\ loops' = [loops EXCEPT ![l] = [IdleLoop EXCEPT !.pc = "post",
                                                             !.track = cur.track]]
           /\ heap' = [heap EXCEPT !.ref[l] = [slot |-> queue.current + 1,
                                                val |-> cur.track]]
    /\ UNCHANGED <<queue, ret, isPlaying, voiceConn, smartPlay, hands, ncmd, lastCmd,
                   panicked, skipped, joinRet, presenceVars, locks>>

\* startPlaying, lines 703-706, past the streaming: addRecommendations(track)
\* reads Platform and Genre through the pointer.
AliasPost(l) ==
    /\ loops[l].pc = "post"
    /\ LET t == Deref(heap, l)
           n == Len(queue.tracks)
           q == IF Refills(smartPlay) THEN addRecommendations(queue, t, MaxQueue - n)
                ELSE queue
       IN  /\ queue' = q
           /\ heap' = HeapAddAll(heap, n, SubSeq(q.tracks, n + 1, Len(q.tracks)))
           /\ ret' = IF Refills(smartPlay)
                     THEN [op |-> "GetRecommendations", arg |-> -1, pre |-> NewQueue,
                           track |-> t, err |-> "nil"]
                     ELSE ret
    /\ loops' = [loops EXCEPT ![l].pc = "next"]
    /\ UNCHANGED <<isPlaying, voiceConn, smartPlay, hands, ncmd, lastCmd, panicked,
                   skipped, joinRet, presenceVars, locks>>

\* startPlaying, line 709: b.queue.Next(); the iteration ends and the
\* variable track with it.
AliasNext(l) ==
    /\ loops[l].pc = "next"
    /\ queue' = QueueNext(queue).q
    /\ loops' = [loops EXCEPT ![l] = IdleLoop]
    /\ heap' = [heap EXCEPT !.ref[l] = NoRef]
    /\ UNCHANGED <<ret, isPlaying, voiceConn, smartPlay, hands, ncmd, lastCmd, panicked,
                   skipped, joinRet, presenceVars, locks>>

\* The iterations of one goroutine, seen from the queue, under plays and
\* removes, with smart play configured on or off.  handlePlay adds a video
\* found with a YouTube API key or the first result of the Spotify search
\* without a token.
NextAlias ==
    \/ \E t \in {TrackA, TrackS} : AliasAdd(t)
    \/ \E i \in 0..MaxQueue - 1 : AliasRemove(i)
    \/ AliasCurrent(1)
    \/ AliasPost(1)
    \/ AliasNext(1)

SpecAlias == InitFair /\ [][NextAlias]_vars

\* C35: the track a goroutine took with Current() reads the same for the
\* whole iteration, whatever Remove does meanwhile, and the recommendations
\* are requested for the genre and the platform of the track it streamed.
TrackKeptForIteration ==
    /\ [](\A l \in LoopIds : loops[l].pc = "post" => Deref(heap, l) = loops[l].track)
    /\ [][\A l \in LoopIds :
            (smartPlay /\ loops[l].pc = "post" /\ AliasPost(l))
              => /\ ret'.track.Genre = loops[l].track.Genre
                 /\ ret'.track.Platform = loops[l].track.Platform]_vars

\* ------------------------------------------------- refreshes and lookups
\* The presence store of one guild under voice state events and refreshes,
\* with the lookups of messageHandler running beside them.
NextRefresh ==
    \/ \E u \in Users, c \in GateChannels : VoiceStateUpdate("g1", u, c)
    \/ \E r \in RefreshIds : RefreshClear(r, "g1")
    \/ \E r \in RefreshIds, err \in {"nil", "err"}, snap \in Snapshots : RefreshFetch(r, err, snap)
    \/ \E r \in RefreshIds : RefreshRepopulate(r)
    \/ \E r \in RefreshIds : RefreshReturn(r)
    \/ \E i \in LookupIds, u \in Users : LookupStore(i, "g1", u)
    \/ \E i \in LookupIds, err \in {"nil", "err"}, snap \in Snapshots :
         LookupAPI(i, err, snap, "", "", "")
    \/ \E i \in LookupIds : LookupRecheck(i, "", "", "")

SpecRefresh == Init /\ [][NextRefresh]_vars

\* C36: a store lookup for a user who is in a channel before and after a
\* refresh of the guild (the last voice state event put the user there, and
\* none followed) finds the record also while the refresh is between its
\* clearing of the guild's records and its return.
RefreshIsAtomicForLookups ==
    [][\A i \in LookupIds, g \in Guilds, u \in Users :
         (/\ lastEv.g = g /\ lastEv.u = u /\ lastEv.c # ""
          /\ \E r \in RefreshIds : /\ refreshes[r].pc \in {"fetch", "repop"}
                                   /\ refreshes[r].g = g
          /\ LookupStore(i, g, u))
           => lookups'[i].pc # "api"]_vars

\* C37: isPlaying is set to true only with a playback loop: every step that
\* turns the flag on leaves a goroutine of startPlaying running or started.
FlagOnNeedsLoop ==
    [][(~isPlaying /\ isPlaying') => (\E l \in LoopIds : loops'[l].pc # "idle")]_vars

\* C38: a remove command for any track of a list of two or more, made
\* while the track at the cursor is streaming, leaves the loop's Next at the
\* track that followed the streamed one in the list before the remove, or
\* at that track's follower when it was the one removed, counting
\* circularly; and the list keeps the order of the tracks that remain.
RemoveKeepsPlaybackOrder ==
    [][\A n \in 1..MaxLen :
         (/\ Len(queue.tracks) >= 2 /\ n <= Len(queue.tracks)
          /\ queue.current >= 0 /\ queue.current < Len(queue.tracks)
          /\ HandleRemove(n))
           => LET len == Len(queue.tracks)
                  f == (queue.current + 1) % len
                  up == IF n - 1 = f THEN (f + 1) % len ELSE f
              IN  /\ QueueNext(queue').err = "nil"
                  /\ QueueNext(queue').track = queue.tracks[up + 1]
                  /\ queue'.tracks = RemoveAt(queue.tracks, n - 1)]_vars

\* A remove command was served on a queue whose cursor had advanced, and
\* the Next that followed it wrapped from the end of the list to index 0.
NextAfterRemoveWrapped ==
    /\ lastCmd = [cmd |-> "remove", res |-> "nil"]
    /\ ret.op = "Next" /\ ret.err = "nil"
    /\ Len(ret.pre.tracks) = Len(queue.tracks)
    /\ Len(queue.tracks) >= 2
    /\ ret.pre.current = Len(queue.tracks) - 1
    /\ queue.current = 0

\* --------------------------------------------------------- the two mutexes
\* A Queue method that returns with its mutex held.
QueueOpNoUnlock == <<"q.Lock">>

\* Every method of Queue: q.mu.Lock(); defer q.mu.Unlock()
QueueOp == <<"q.Lock", "q.Unlock">>

\* The lock calls of each function, in program order:
\* handlePlay (joinVoiceChannel, Add, the read of isPlaying); handlePause,
\* handleResume and the handlers of the presence store; handleStop, whose
\* Clear runs under b.mu; handleSkip, handleRemove and handleQueue, one Queue
\* method each; one pass of startPlaying for a track that is streamed
\* (the flag, Current under b.mu, addRecommendations' Add, Next, the flag);
\* and a pass whose source resolution fails (Current and Next under b.mu).
Programs ==
    [handlePlay |-> <<"b.Lock", "b.Unlock">> \o QueueOp \o <<"b.Lock", "b.Unlock">>,
     handlePause |-> <<"b.Lock", "b.Unlock">>,
     handleStop |-> <<"b.Lock">> \o QueueOp \o <<"b.Unlock">>,
     handleSkip |-> QueueOp,
     startPlaying |-> <<"b.Lock", "b.Unlock">> \o <<"b.Lock">> \o QueueOp \o <<"b.Unlock">>
                        \o QueueOp \o QueueOp \o <<"b.Lock", "b.Unlock">>,
     startPlayingSkip |-> <<"b.Lock">> \o QueueOp \o QueueOp \o <<"b.Unlock">>]

\* The call task t makes next, "" when it is in no function.
NextCall(lk, t) ==
    IF lk.task[t].pc \in DOMAIN lk.task[t].prog THEN lk.task[t].prog[lk.task[t].pc]
    ELSE ""

\* A task enters a function.
TaskStart(t, fn) ==
    /\ locks.task[t].fn = ""
    /\ locks' = [locks EXCEPT !.task[t] = [prog |-> Programs[fn], pc |-> 1, fn |-> fn]]
    /\ UNCHANGED <<playVars, heap, presenceVars>>

\* Mutex.Lock returns: the mutex was free and is now held by t.
TaskLock(t) ==
    /\ \/ /\ NextCall(locks, t) = "b.Lock" /\ locks.mu = 0
          /\ locks' = [locks EXCEPT !.mu = t, !.task[t].pc = @ + 1]
       \/ /\ NextCall(locks, t) = "q.Lock" /\ locks.qmu = 0
          /\ locks' = [locks EXCEPT !.qmu = t, !.task[t].pc = @ + 1]
    /\ UNCHANGED <<playVars, heap, presenceVars>>

\* Mutex.Unlock
TaskUnlock(t) ==
    /\ \/ /\ NextCall(locks, t) = "b.Unlock"
          /\ locks' = [locks EXCEPT !.mu = 0, !.task[t].pc = @ + 1]
       \/ /\ NextCall(locks, t) = "q.Unlock"
          /\ locks' = [locks EXCEPT !.qmu = 0, !.task[t].pc = @ + 1]
    /\ UNCHANGED <<playVars, heap, presenceVars>>

\* The handlers and goroutines as callers of Lock and Unlock; each task runs
\* one function.
NextLocks ==
    \/ \E t \in TaskIds, fn \in DOMAIN Programs : TaskStart(t, fn)
    \/ \E t \in TaskIds : TaskLock(t)
    \/ \E t \in TaskIds : TaskUnlock(t)

\* The scheduler runs every goroutine that can run, and a mutex that is
\* free is given to a goroutine waiting for it.
SpecLocks ==
    Init /\ [][NextLocks]_vars
         /\ \A t \in TaskIds : WF_vars(TaskLock(t)) /\ WF_vars(TaskUnlock(t))

\* C39: the two mutexes never deadlock.  No task calls b.mu.Lock while it
\* holds the queue's mutex (the nesting is b.mu, then the queue's mutex);
\* whenever a task waits for a mutex some task can take a step; and a task
\* that calls a Queue method gets the queue's mutex and releases it.
LocksNeverDeadlock ==
    /\ [](\A t \in TaskIds : locks.qmu = t => NextCall(locks, t) # "b.Lock")
    /\ []((\E t \in TaskIds : NextCall(locks, t) # "")
            => (\E t \in TaskIds : ENABLED (TaskLock(t) \/ TaskUnlock(t))))
    /\ \A t \in TaskIds : (NextCall(locks, t) = "q.Lock") ~> (locks.qmu = t)
    /\ \A t \in TaskIds : (locks.qmu = t) ~> (locks.qmu # t)

\* A task waits for the queue's mutex with b.mu in its hands (handleStop's
\* Clear or startPlaying's Current) while another task holds the queue's
\* mutex.
QueueCallWaitsUnderMu ==
    \E t, o \in TaskIds :
       /\ t # o
       /\ locks.mu = t /\ NextCall(locks, t) = "q.Lock"
       /\ locks.qmu = o

\* C40: whenever a guild has an entry in voiceConn, the connection of that
\* entry has not been disconnected, and no joinVoiceChannel call returns an
\* entry whose connection has been.
NoDeadSessionInstalled ==
    /\ \A g \in Guilds : Joined(g) => voiceConn[g].connection # "closed"
    /\ (joinRet.g # "" /\ joinRet.err = "nil" /\ joinRet.calls = <<>>)
         => joinRet.pre.connection # "closed"

====
